---- MODULE Spec2Model ----
(***************************************************************************)
(* DevDocBuddy frontend: the Pinia document store (stores/docStore.js),    *)
(* the API client (api/index.js), the DocInput controls and the Q&A        *)
(* widget, together with the backend index they talk to.                   *)
(*                                                                         *)
(* Every HTTP request is a record in flight: the backend handles it in one *)
(* atomic step (Backend), and the awaiting handler resumes in a later step *)
(* (Deliver, Timeout), so responses may arrive in any order.               *)
(***************************************************************************)
EXTENDS Naturals, Sequences, FiniteSets, Bags, TLC

\* ------------------------------------------------------------------ bounds
MaxOps == 3        \* store actions started in one behaviour
MaxInFlight == 2   \* store requests in flight at once
MaxChunks == 1     \* capacity of the backend index
MaxAsks == 2       \* questions submitted in one behaviour

\* ------------------------------------------------------------------ values
\* JavaScript null / undefined (a missing field).
Null == "<null>"

\* DocInput.vue: the sample document.
SAMPLE == "# DevDocBuddy Sample\nDevDocBuddy summarizes docs and answers questions with sources.\n- Upload PDF/Markdown/GitHub URL\n- Ask questions in plain English\n- See the exact chunks used as citations\n"

\* What the user can type into a text input.
Texts == {"", " ", " a "}
\* What the user can pick in a file input (file.name); NoFile: dialog cancelled.
NoFile == "<nofile>"
Files == {"guide.md"}

\* String.prototype.trim(): strip white space at both ends.
IsSpace(c) == c \in {" ", "\t", "\n", "\r"}

RECURSIVE TrimStart(_)
TrimStart(s) ==
    IF Len(s) = 0 THEN s
    ELSE IF IsSpace(SubSeq(s, 1, 1)) THEN TrimStart(SubSeq(s, 2, Len(s)))
    ELSE s

RECURSIVE TrimEnd(_)
TrimEnd(s) ==
    IF Len(s) = 0 THEN s
    ELSE IF IsSpace(SubSeq(s, Len(s), Len(s))) THEN TrimEnd(SubSeq(s, 1, Len(s) - 1))
    ELSE s

Trim(s) == TrimEnd(TrimStart(s))

Min(a, b) == IF a < b THEN a ELSE b

\* JavaScript truthiness of a string-or-null value; `a || b`.
Truthy(v) == v # Null /\ v # ""
OrElse(a, b) == IF Truthy(a) THEN a ELSE b

\* ------------------------------------------------------------------ state
VARIABLES
    \* docStore state (docStore.js:7-15)
    query, url, results, loading, error, lastFilename, hasIndex,
    \* QAWidget refs (QAWidget.vue:46-48)
    question, messages, qaLoading,
    \* store requests in flight (a bag: responses arrive in any order)
    reqs,
    \* /api/ask requests in flight
    asks,
    \* backend: number of chunks in the index
    chunks,
    \* history: store actions started; calls of askQuestion
    nOps, nAsks,
    \* history: some store action started while another was in flight
    overlapped,
    \* history: a reset has completed and no ingest has completed successfully since
    resetDone,
    \* history: how many successful resets have run back to back, each with no
    \* other store action in flight (n, counted up to 2), and the store state the
    \* last of them left
    afterReset,
    \* history: how the last mutating store action to complete ended ("none":
    \* none has completed; "overlap": two have been in flight together, and
    \* nothing is recorded from then on), and whether the one before it failed
    lastDone

storeVars == <<query, url, results, loading, error, lastFilename, hasIndex>>
qaVars == <<question, messages, qaLoading>>
histVars == <<nOps, nAsks, overlapped, resetDone, afterReset, lastDone>>
vars == <<storeVars, qaVars, reqs, asks, chunks, histVars>>

StoreState ==
    [query |-> query, url |-> url, results |-> results, loading |-> loading,
     error |-> error, lastFilename |-> lastFilename, hasIndex |-> hasIndex]

NoSnap == [n |-> 0, state |-> Null]

NoneDone == [outcome |-> "none", afterFailure |-> FALSE]
Overlap == [outcome |-> "overlap", afterFailure |-> FALSE]

\* The fields a mutating action writes besides loading and error.
Prior ==
    [results |-> results, hasIndex |-> hasIndex, lastFilename |-> lastFilename,
     query |-> query, url |-> url]

NoPrior ==
    [results |-> Null, hasIndex |-> FALSE, lastFilename |-> Null,
     query |-> "", url |-> ""]

\* ------------------------------------------------------------------ HTTP
\* A response, or the error axios raises. kind: "ok" (2xx), "http" (non-2xx:
\* err.response is set), "net" (no response at all).
\* message is err.message; the body is a string (bodyIsString, bodyText) or a
\* JSON object with the fields detail, summary, title, ready.
\* detail is absent, a string, or a structured value (an object).
NoDetail == [type |-> "none", text |-> Null, loc |-> Null, msg |-> Null]
StringDetail(t) == [type |-> "string", text |-> t, loc |-> Null, msg |-> Null]
ObjectDetail(loc, msg) == [type |-> "object", text |-> Null, loc |-> loc, msg |-> msg]

Resp(kind, message, bodyIsString, bodyText, detail, summary, title, ready) ==
    [kind |-> kind, message |-> message, bodyIsString |-> bodyIsString,
     bodyText |-> bodyText, detail |-> detail,
     summary |-> summary, title |-> title, ready |-> ready]

OkIngest(summary, title) == Resp("ok", Null, FALSE, Null, NoDetail, summary, title, FALSE)
OkStatus(ready) == Resp("ok", Null, FALSE, Null, NoDetail, Null, Null, ready)
OkReset == Resp("ok", Null, FALSE, Null, NoDetail, Null, Null, FALSE)
NetErr == Resp("net", "Network Error", FALSE, Null, NoDetail, Null, Null, FALSE)

\* The backend's rejections: a string detail, a structured detail (request
\* validation), an empty body.
DetailText == "Unsupported file type"
RejDetail == Resp("http", "Request failed with status code 400", FALSE, Null, StringDetail(DetailText), Null, Null, FALSE)
RejObject == Resp("http", "Request failed with status code 422", FALSE, Null, ObjectDetail("file", "field required"), Null, Null, FALSE)
RejEmpty == Resp("http", "Request failed with status code 502", TRUE, "", NoDetail, Null, Null, FALSE)
Rejections == {RejDetail, RejObject, RejEmpty}

\* JSON.stringify of a structured detail.
JSONStringify(d) == "{\"loc\":\"" \o d.loc \o "\",\"msg\":\"" \o d.msg \o "\"}"

\* api/index.js asMessage(err): d?.detail is truthy.
HasDetail(err) ==
    /\ err.kind = "http"
    /\ ~err.bodyIsString
    /\ \/ err.detail.type = "object"
       \/ err.detail.type = "string" /\ Truthy(err.detail.text)

asMessage(err) ==
    IF HasDetail(err)
    THEN (IF err.detail.type = "string" THEN err.detail.text ELSE JSONStringify(err.detail))
    ELSE IF err.kind = "http" /\ err.bodyIsString THEN err.bodyText
    ELSE OrElse(err.message, "Request failed")

\* The store's operations and the API function each calls.
IngestOps == {"summarize", "upload", "addDoc", "uploadUrl"}

\* e.message of the error an API function throws: summarize and getIndexStatus
\* let the axios error through, the others throw new Error(asMessage(e)).
Thrown(op, err) ==
    IF op \in {"summarize", "status"} THEN err.message ELSE asMessage(err)

\* The fallback text of each store action's catch block.
Fallback(op) ==
    CASE op = "summarize" -> "Failed to summarize"
      [] op = "upload" -> "File upload failed"
      [] op = "addDoc" -> "Add-doc failed"
      [] op = "uploadUrl" -> "URL upload failed"
      [] op = "reset" -> "Reset failed"

\* this.error = e?.message || '<fallback>'
CaughtError(op, err) == OrElse(Thrown(op, err), Fallback(op))

\* ------------------------------------------------------------------ requests
\* A store request in flight. arg: the query, file name or URL sent; st: "sent"
\* (not yet handled by the backend), "ok" or "rejected" (handled, the response
\* is on its way); ready: the index status the backend computed; solo: no other
\* store action has been in flight at any time since this one started (history).
\* prior: for a solo request, the values results, hasIndex, lastFilename, query
\* and url had when its action was called, following what the user has typed
\* into the two inputs since (history).
\* What else the response carries is only seen when it arrives, so it is
\* chosen there (Outcomes).
Req(op, arg, index, mode, title) ==
    [op |-> op, arg |-> arg, index |-> index, mode |-> mode, title |-> title,
     st |-> "sent", ready |-> FALSE, solo |-> reqs = EmptyBag,
     prior |-> IF reqs = EmptyBag THEN Prior ELSE NoPrior]

Remove(seq, i) == SubSeq(seq, 1, i - 1) \o SubSeq(seq, i + 1, Len(seq))

InFlight == BagToSet(reqs)

\* The requests of mutating store actions (all but the status query) in flight.
Mutations ==
    [r \in {x \in InFlight : x.op # "status"} |-> CopiesIn(r, reqs)]

\* The requests in flight once another one joins them: none is solo any more
\* (a solo request is the only one in flight).
Joined(b) ==
    IF \E x \in BagToSet(b) : x.solo
    THEN SetToBag({[x EXCEPT !.solo = FALSE, !.prior = NoPrior] : x \in BagToSet(b)})
    ELSE b

\* The requests in flight once the user has edited the inputs to q and u.
Retyped(b, q, u) ==
    IF \E x \in BagToSet(b) : x.solo
    THEN SetToBag({[x EXCEPT !.prior.query = q, !.prior.url = u] : x \in BagToSet(b)})
    ELSE b

\* Sending a request: it joins the requests in flight.
Send(r) ==
    /\ nOps < MaxOps
    /\ BagCardinality(reqs) < MaxInFlight
    /\ nOps' = nOps + 1
    /\ reqs' = Joined(reqs) (+) SetToBag({r})
    /\ overlapped' = (overlapped \/ reqs # EmptyBag)
    /\ afterReset' = IF r.op = "reset" THEN afterReset ELSE NoSnap
    /\ lastDone' = IF r.op # "status" /\ BagCardinality(Mutations) > 0
                   THEN Overlap ELSE lastDone
    /\ UNCHANGED <<resetDone, nAsks, asks, chunks, qaVars>>

\* ------------------------------------------------------------------ api/index.js
\* summarize({ query, index, mode, title }): POST /api/summarize.
summarize(q, index, mode, title) == Req("summarize", q, index, mode, title)
\* uploadFile(file): POST /api/upload.
uploadFileReq(file) == Req("upload", file, FALSE, Null, Null)
\* addDocument(file): POST /api/add-doc.
addDocument(file) == Req("addDoc", file, FALSE, Null, Null)
\* uploadFromURL(url): POST /api/upload-url.
uploadFromURLReq(u) == Req("uploadUrl", u, FALSE, Null, Null)
\* resetEmbeddings(): POST /api/reset.
resetEmbeddings == Req("reset", Null, FALSE, Null, Null)
\* getIndexStatus(): GET /api/index-status.
getIndexStatus == Req("status", Null, FALSE, Null, Null)

\* ------------------------------------------------------------------ docStore.js
\* Each action up to its await: the assignments before `try` and the request.

\* initIndexStatus(), lines 17-19.
initIndexStatus ==
    /\ Send(getIndexStatus)
    /\ UNCHANGED storeVars

\* Variant of fetchSummary: the error of an earlier action is not cleared.
fetchSummary_KeepsError(q) ==
    /\ query' = q
    /\ loading' = TRUE
    /\ Send([summarize(q, TRUE, "replace", "Manual Text")
                EXCEPT !.prior.query = IF reqs = EmptyBag THEN q ELSE @])
    /\ UNCHANGED <<url, results, error, lastFilename, hasIndex>>

\* fetchSummary(), lines 26-35; q is this.query when the action is called.
fetchSummary(q) ==
    /\ query' = q
    /\ loading' = TRUE
    /\ error' = Null
    /\ Send([summarize(q, TRUE, "replace", "Manual Text")
                EXCEPT !.prior.query = IF reqs = EmptyBag THEN q ELSE @])
    /\ UNCHANGED <<url, results, lastFilename, hasIndex>>

\* uploadFile(file), lines 48-53.
uploadFile(file) ==
    /\ loading' = TRUE
    /\ error' = Null
    /\ lastFilename' = OrElse(file, Null)
    /\ Send(uploadFileReq(file))
    /\ UNCHANGED <<query, url, results, hasIndex>>

\* addDoc(file), lines 65-70.
addDoc(file) ==
    /\ loading' = TRUE
    /\ error' = Null
    /\ lastFilename' = OrElse(file, Null)
    /\ Send(addDocument(file))
    /\ UNCHANGED <<query, url, results, hasIndex>>

\* uploadFromURL(url), lines 82-87.
uploadFromURL(u) ==
    /\ loading' = TRUE
    /\ error' = Null
    /\ lastFilename' = u
    /\ Send(uploadFromURLReq(u))
    /\ UNCHANGED <<query, url, results, hasIndex>>

\* resetIndex(), lines 99-103.
resetIndex ==
    /\ loading' = TRUE
    /\ error' = Null
    /\ Send(resetEmbeddings)
    /\ UNCHANGED <<query, url, results, lastFilename, hasIndex>>

\* Each action after its await, as a function of the store state s.
\* initIndexStatus, lines 20-23: this.hasIndex = !!st?.ready, or false on error.
StatusDone(s, o) == [s EXCEPT !.hasIndex = (o.kind = "ok" /\ o.ready)]

\* The try block of an ingest action after the await (lines 36-38, 54-55, 71-72,
\* 88-89).
IngestOk(op, s, data) ==
    [s EXCEPT !.results = OrElse(data.summary, Null),
              !.lastFilename = IF op = "summarize"
                               THEN OrElse(data.title, "Manual Text")
                               ELSE s.lastFilename,
              !.hasIndex = TRUE]

\* Variant of ResetOk: the two input fields are left as they are.
ResetOk_KeepsInputs(s) ==
    [s EXCEPT !.results = Null, !.lastFilename = Null, !.hasIndex = FALSE]

\* Variant of ResetOk: resetting when no index is marked ready is an error.
ResetOk_RejectsEmpty(s) ==
    IF s.hasIndex
    THEN [s EXCEPT !.results = Null, !.lastFilename = Null, !.query = "",
                   !.url = "", !.hasIndex = FALSE]
    ELSE [s EXCEPT !.error = "Reset failed"]

\* The try block of resetIndex after the await, lines 104-108.
ResetOk(s) ==
    [s EXCEPT !.results = Null, !.lastFilename = Null, !.query = "",
              !.url = "", !.hasIndex = FALSE]

\* The catch block of a mutating action.
Failed(op, s, err) == [s EXCEPT !.error = CaughtError(op, err)]

\* The finally block of a mutating action.
Finally(s) == [s EXCEPT !.loading = FALSE]

\* The store state when the action that sent r resumes with outcome o.
After(r, o) ==
    IF r.op = "status" THEN StatusDone(StoreState, o)
    ELSE IF o.kind # "ok" THEN Finally(Failed(r.op, StoreState, o))
    ELSE IF r.op = "reset" THEN Finally(ResetOk(StoreState))
    ELSE Finally(IngestOk(r.op, StoreState, o))

SetStore(s) ==
    /\ query' = s.query
    /\ url' = s.url
    /\ results' = s.results
    /\ loading' = s.loading
    /\ error' = s.error
    /\ lastFilename' = s.lastFilename
    /\ hasIndex' = s.hasIndex

\* The awaiting action resumes with outcome o and request r leaves the network.
Resume(r, o) ==
    /\ SetStore(After(r, o))
    /\ reqs' = reqs (-) SetToBag({r})
    /\ resetDone' = IF r.op = "status" \/ o.kind # "ok" THEN resetDone
                    ELSE r.op = "reset"
    /\ afterReset' = IF r.op = "reset" /\ o.kind = "ok" /\ r.solo
                     THEN [n |-> Min(afterReset.n + 1, 2), state |-> After(r, o)]
                     ELSE NoSnap
    /\ lastDone' = IF r.op = "status" \/ lastDone = Overlap THEN lastDone
                   ELSE [outcome |-> IF o.kind = "ok" THEN "ok" ELSE "failed",
                         afterFailure |-> lastDone.outcome = "failed"]
    /\ UNCHANGED <<nOps, nAsks, overlapped, asks, chunks, qaVars>>

\* The responses request r may receive once the backend has handled it.
Summaries == {Null, "<p>summary</p>"}
Titles(r) == IF r.op = "summarize" THEN {Null, r.title} ELSE {Null}

Outcomes(r) ==
    IF r.st = "rejected" THEN Rejections
    ELSE IF r.st # "ok" THEN {}
    ELSE IF r.op = "status" THEN {OkStatus(r.ready)}
    ELSE IF r.op = "reset" THEN {OkReset}
    ELSE {OkIngest(sm, t) : sm \in Summaries, t \in Titles(r)}

\* The response o of request r arrives.
Deliver(r, o) ==
    /\ o \in Outcomes(r)
    /\ Resume(r, o)

\* Request r fails without a response (connection lost, 120 s timeout), whether
\* or not the backend has handled it.
Timeout(r) == Resume(r, NetErr)

\* ------------------------------------------------------------------ DocInput.vue
\* The component: the template and script of lines 1-80. The file repeats an
\* older template and script after line 90; a single-file component has one of
\* each, so that block is no part of the running component.
\* v-model on the two text inputs.
TypeQuery(t) ==
    /\ query' = t
    /\ reqs' = Retyped(reqs, t, url)
    /\ UNCHANGED <<url, results, loading, error, lastFilename, hasIndex>>
    /\ UNCHANGED <<qaVars, asks, chunks, histVars>>

TypeUrl(t) ==
    /\ url' = t
    /\ reqs' = Retyped(reqs, query, t)
    /\ UNCHANGED <<query, results, loading, error, lastFilename, hasIndex>>
    /\ UNCHANGED <<qaVars, asks, chunks, histVars>>

\* Variant of SummarizeDisabled: the query is tested without trim().
SummarizeDisabled_NoTrim == loading \/ ~Truthy(query)

\* The Summarize & Index button, lines 10-12.
SummarizeDisabled == loading \/ ~Truthy(Trim(query))
ClickSummarize ==
    /\ ~SummarizeDisabled
    /\ fetchSummary(query)

\* Load Sample Doc, line 18, and loadSample(), lines 62-66.
LoadSampleDisabled == loading
loadSample ==
    /\ ~LoadSampleDisabled
    /\ fetchSummary(SAMPLE)

\* The two file inputs, lines 24 and 30 (never disabled), and their handlers,
\* lines 68-77.
onUpload(file) ==
    IF Truthy(file) /\ file # NoFile THEN uploadFile(file) ELSE UNCHANGED vars

onAddDoc(file) ==
    IF Truthy(file) /\ file # NoFile THEN addDoc(file) ELSE UNCHANGED vars

\* The Upload URL button, lines 37-39, and uploadFromURL(), lines 78-80.
UploadURLDisabled == loading \/ ~Truthy(Trim(url))
ClickUploadURL ==
    /\ ~UploadURLDisabled
    /\ IF Truthy(url) THEN uploadFromURL(url) ELSE UNCHANGED vars

\* The Reset Index button, line 44.
ResetDisabled == loading
ClickReset ==
    /\ ~ResetDisabled
    /\ resetIndex

\* ------------------------------------------------------------------ backend
\* The backend is not part of the frontend sources; it is modelled from the
\* specification: ready iff the index holds a chunk, replace-mode ingest swaps
\* the index, accumulate-mode ingest appends, whitespace-only text yields zero
\* chunks and is an ingestion no-op, summarization may fail without failing the
\* ingest, a rejected request leaves the index as it was.
is_ready == chunks > 0

\* Chunks a document may yield: pasted text by its content, a file or URL by
\* content the frontend does not see.
NewChunks(r) ==
    IF r.op = "summarize"
    THEN (IF Trim(r.arg) = "" THEN {0} ELSE {1})
    ELSE {0, 1}

\* Index size after ingesting n chunks (add-doc accumulates, the rest replace).
Indexed(op, c, n) ==
    IF n = 0 THEN c
    ELSE IF op = "addDoc" THEN Min(c + n, MaxChunks)
    ELSE n

Reply(r, st, ready) ==
    reqs' = (reqs (-) SetToBag({r})) (+) SetToBag({[r EXCEPT !.st = st, !.ready = ready]})

\* GET /api/index-status.
BackendStatus(r) ==
    /\ r.st = "sent"
    /\ r.op = "status"
    /\ Reply(r, "ok", is_ready)
    /\ UNCHANGED <<storeVars, qaVars, asks, chunks, histVars>>

\* POST /api/summarize, /api/upload, /api/add-doc, /api/upload-url.
BackendIngest(r) ==
    /\ r.st = "sent"
    /\ r.op \in IngestOps
    /\ \/ \E n \in NewChunks(r) :
            /\ chunks' = Indexed(r.op, chunks, n)
            /\ Reply(r, "ok", FALSE)
       \/ /\ Reply(r, "rejected", FALSE)
          /\ UNCHANGED chunks
    /\ UNCHANGED <<storeVars, qaVars, asks, histVars>>

\* POST /api/reset.
BackendReset(r) ==
    /\ r.st = "sent"
    /\ r.op = "reset"
    /\ \/ /\ chunks' = 0
          /\ Reply(r, "ok", FALSE)
       \/ /\ Reply(r, "rejected", FALSE)
          /\ UNCHANGED chunks
    /\ UNCHANGED <<storeVars, qaVars, asks, histVars>>

\* ------------------------------------------------------------------ QAWidget.vue
\* A chat message. A user message and an error message carry no sources field;
\* it is written here as the empty list, which the template shows the same way.
Msg(from, text, sources, showSources) ==
    [from |-> from, text |-> text, sources |-> sources, showSources |-> showSources]

\* The response to POST /api/ask, or the error axios raises.
AskResp(kind, detail, answer, hasSources, sources) ==
    [kind |-> kind, detail |-> detail, answer |-> answer,
     hasSources |-> hasSources, sources |-> sources]

AskNetErr == AskResp("net", NoDetail, Null, FALSE, <<>>)
AskRejected(text) == AskResp("http", StringDetail(text), Null, FALSE, <<>>)

NoAnswer == "No answer received."
AskFailed == "Error: Failed to fetch answer."

\* v-model on the question input.
TypeQuestion(t) ==
    /\ question' = t
    /\ UNCHANGED <<messages, qaLoading, storeVars, reqs, asks, chunks, histVars>>

\* Variant of QuestionEmpty: the question is tested without trim().
QuestionEmpty_NoTrim(q) == ~Truthy(q)

\* askQuestion(), line 56: !question.value.trim()
QuestionEmpty(q) == ~Truthy(Trim(q))

\* askQuestion(), lines 55-67: up to the await.
askQuestion ==
    /\ nAsks < MaxAsks
    /\ nAsks' = nAsks + 1
    /\ IF QuestionEmpty(question)
       THEN UNCHANGED <<question, messages, qaLoading, asks>>
       ELSE /\ messages' = Append(messages, Msg("user", question, <<>>, FALSE))
            /\ question' = ""
            /\ qaLoading' = TRUE
            /\ asks' = Append(asks, [question |-> question, st |-> "sent",
                                      detail |-> Null])
    /\ UNCHANGED <<storeVars, reqs, chunks, nOps, overlapped, resetDone, afterReset,
                   lastDone>>

\* The Ask button, line 37; the form submits through it (line 35).
AskDisabled == qaLoading \/ ~Truthy(Trim(question))
ClickAsk ==
    /\ ~AskDisabled
    /\ askQuestion

\* The submit handler called whatever the button's state (a scripted submit).
SubmitEvent == askQuestion

\* Variant of Answered: the sources are kept only beside an answer.
Answered_DropsSources(data) ==
    Msg("ai", OrElse(data.answer, NoAnswer),
        IF data.hasSources /\ Truthy(data.answer) THEN data.sources ELSE <<>>, FALSE)

\* The message appended after the await, lines 68-78.
Answered(data) ==
    Msg("ai", OrElse(data.answer, NoAnswer),
        IF data.hasSources THEN data.sources ELSE <<>>, FALSE)

AskError == Msg("ai", AskFailed, <<>>, FALSE)

\* Variant of ResumeAsk: a failed request appends no message (no catch block).
ResumeAsk_SilentFailure(i, o) ==
    /\ messages' = IF o.kind = "ok" THEN Append(messages, Answered(o)) ELSE messages
    /\ qaLoading' = FALSE
    /\ asks' = Remove(asks, i)
    /\ UNCHANGED <<question, storeVars, reqs, chunks, histVars>>

\* askQuestion(), lines 68-81: the handler resumes with outcome o.
ResumeAsk(i, o) ==
    /\ messages' = Append(messages, IF o.kind = "ok" THEN Answered(o) ELSE AskError)
    /\ qaLoading' = FALSE
    /\ asks' = Remove(asks, i)
    /\ UNCHANGED <<question, storeVars, reqs, chunks, histVars>>

\* The responses ask request a may receive once the backend has handled it.
Answers == {Null, "", "stores a value"}
Citations == {<<>>, <<"chunk 2 (0.81)", "chunk 1 (0.40)">>}

AskOutcomes(a) ==
    IF a.st = "rejected" THEN {AskRejected(a.detail)}
    ELSE IF a.st # "ok" THEN {}
    ELSE {AskResp("ok", NoDetail, ans, h, c) :
              ans \in Answers, h \in BOOLEAN, c \in Citations}

DeliverAsk(i, o) ==
    /\ o \in AskOutcomes(asks[i])
    /\ ResumeAsk(i, o)

TimeoutAsk(i) == ResumeAsk(i, AskNetErr)

\* toggleSources(index), lines 51-53; the button exists where sources do.
toggleSources(index) ==
    /\ Len(messages[index].sources) > 0
    /\ messages' = [messages EXCEPT ![index].showSources = ~messages[index].showSources]
    /\ UNCHANGED <<question, qaLoading, storeVars, reqs, asks, chunks, histVars>>

\* POST /api/ask on the backend (modelled from the specification): an empty
\* question is a validation error, an empty index is IndexNotReady, otherwise
\* an answer (possibly none found) with the retrieved citations.
EmptyQuestion == "Question must not be empty"
IndexNotReady == "Index is empty. Upload or paste a document first."

BackendAsk(i) ==
    /\ asks[i].st = "sent"
    /\ asks' = IF Trim(asks[i].question) = ""
               THEN [asks EXCEPT ![i].st = "rejected", ![i].detail = EmptyQuestion]
               ELSE IF ~is_ready
               THEN [asks EXCEPT ![i].st = "rejected", ![i].detail = IndexNotReady]
               ELSE [asks EXCEPT ![i].st = "ok"]
    /\ UNCHANGED <<storeVars, qaVars, reqs, chunks, histVars>>

\* ------------------------------------------------------------------ system
Init ==
    /\ query = ""
    /\ url = ""
    /\ results = Null
    /\ loading = FALSE
    /\ error = Null
    /\ lastFilename = Null
    /\ hasIndex = FALSE
    /\ question = ""
    /\ messages = <<>>
    /\ qaLoading = FALSE
    /\ reqs = EmptyBag
    /\ asks = <<>>
    /\ chunks \in 0..MaxChunks
    /\ nOps = 0
    /\ nAsks = 0
    /\ overlapped = FALSE
    /\ resetDone = FALSE
    /\ afterReset = NoSnap
    /\ lastDone = NoneDone

\* The document store, the DocInput controls and the backend index.
Next ==
    \/ initIndexStatus
    \/ \E t \in Texts : TypeQuery(t)
    \/ \E t \in Texts : TypeUrl(t)
    \/ ClickSummarize
    \/ loadSample
    \/ \E f \in Files \cup {NoFile} : onUpload(f)
    \/ \E f \in Files \cup {NoFile} : onAddDoc(f)
    \/ ClickUploadURL
    \/ ClickReset
    \/ \E r \in InFlight : BackendStatus(r)
    \/ \E r \in InFlight : BackendIngest(r)
    \/ \E r \in InFlight : BackendReset(r)
    \/ \E r \in InFlight : \E o \in Outcomes(r) : Deliver(r, o)
    \/ \E r \in InFlight : Timeout(r)

Spec == Init /\ [][Next]_vars

\* The Q&A widget beside the store's index status.
NextQA ==
    \/ initIndexStatus
    \/ \E r \in InFlight : BackendStatus(r)
    \/ \E r \in InFlight : \E o \in Outcomes(r) : Deliver(r, o)
    \/ \E r \in InFlight : Timeout(r)
    \/ \E t \in Texts : TypeQuestion(t)
    \/ ClickAsk
    \/ \E i \in DOMAIN asks : BackendAsk(i)
    \/ \E i \in DOMAIN asks : \E o \in AskOutcomes(asks[i]) : DeliverAsk(i, o)
    \/ \E i \in DOMAIN asks : TimeoutAsk(i)
    \/ \E index \in DOMAIN messages : toggleSources(index)

SpecQA == Init /\ [][NextQA]_vars

\* The widget's submit handler called in any state of the component.
NextHandler ==
    \/ \E t \in Texts : TypeQuestion(t)
    \/ ClickAsk
    \/ SubmitEvent
    \/ \E i \in DOMAIN asks : BackendAsk(i)
    \/ \E i \in DOMAIN asks : \E o \in AskOutcomes(asks[i]) : DeliverAsk(i, o)
    \/ \E i \in DOMAIN asks : TimeoutAsk(i)
    \/ \E index \in DOMAIN messages : toggleSources(index)

SpecHandler == Init /\ [][NextHandler]_vars

\* An ask request comes to its end: its response arrives or it fails.
AskCompletes ==
    \E i \in DOMAIN asks :
        \/ \E o \in AskOutcomes(asks[i]) : DeliverAsk(i, o)
        \/ TimeoutAsk(i)

\* The submit handler, every request it sends coming to its end.
SpecAsk == Init /\ [][NextHandler]_vars /\ WF_vars(AskCompletes)

\* ------------------------------------------------------------------ properties
\* A text holds nothing but white space (stated without trim).
Blank(t) == \A k \in 1..Len(t) : IsSpace(SubSeq(t, k, k))

\* C1: an ask request is sent only in a state where the index status is ready
\* (hasIndex is true).
C1_AskOnlyWhenReady == [][Len(asks') > Len(asks) => hasIndex]_vars

\* C2: once store actions have run to completion and none overlapped,
\* hasIndex equals the backend's ready (the index holds a chunk).
C2_ReadyInSync ==
    (nOps > 0 /\ reqs = EmptyBag /\ ~overlapped) => (hasIndex = is_ready)

\* C3: after a reset has completed, while no ingest has completed since and the
\* backend index is still empty, hasIndex is false.
C3_NoStaleReady == (resetDone /\ ~is_ready) => ~hasIndex

\* C4: a call of askQuestion with an empty or whitespace-only question sends no
\* ask request, appends no message and leaves loading and the question as they
\* were.
C4_EmptyQuestionIgnored ==
    [][(nAsks' # nAsks /\ Blank(question))
          => UNCHANGED <<asks, messages, qaLoading, question>>]_vars

\* askQuestion has been called and nothing was sent or appended: every call so
\* far was made with a blank question.
C4_Witness == nAsks > 0 /\ messages = <<>> /\ asks = <<>> /\ ~qaLoading

\* The store state the README promises after Reset Index.
Cleared(s) ==
    /\ s.results = Null
    /\ s.lastFilename = Null
    /\ s.query = ""
    /\ s.url = ""
    /\ s.hasIndex = FALSE
    /\ s.error = Null
    /\ s.loading = FALSE

\* C5: when resetIndex completes successfully and no other store action was in
\* flight during it, results and lastFilename are null, query and url empty,
\* hasIndex and loading false and error null.
C5_ResetClears ==
    [][\A r \in InFlight :
          (r.op = "reset" /\ r.solo /\ Deliver(r, OkReset))
              => Cleared(StoreState')]_vars

\* A reset has completed on its own after an earlier store action.
C5_Witness ==
    /\ afterReset.n = 1
    /\ ~overlapped
    /\ reqs = EmptyBag
    /\ chunks = 0

\* C6: a successful reset that directly follows a successful reset leaves the
\* store state the first one left, with hasIndex false; and a successful reset
\* started with hasIndex false raises no error.
C6_ResetIdempotent ==
    [][\A r \in InFlight :
          (r.op = "reset" /\ r.solo /\ Deliver(r, OkReset))
              => /\ afterReset.n > 0 => (StoreState' = afterReset.state /\ ~hasIndex')
                 /\ ~hasIndex => error' = Null]_vars

\* Two successful resets have run back to back.
C6_Witness == afterReset.n >= 2 /\ reqs = EmptyBag

\* C7: when the backend rejects a mutating store action or a question with a
\* string detail, the message shown (store.error, or the text of the AI message)
\* is that detail.
C7_RejectionVerbatim ==
    [][/\ \A r \in InFlight :
            (r.op # "status" /\ Deliver(r, RejDetail)) => error' = DetailText
       /\ \A i \in DOMAIN asks : \A o \in AskOutcomes(asks[i]) :
            (o.kind = "http" /\ DeliverAsk(i, o))
                => messages'[Len(messages')].text = o.detail.text]_vars

\* C8: when an ingest action's response arrives successfully without a summary,
\* the action ends with hasIndex true, results null, error null and loading
\* false.
C8_NoSummaryDowngrade ==
    [][\A r \in InFlight : \A o \in Outcomes(r) :
          (r.op \in IngestOps /\ o.kind = "ok" /\ ~Truthy(o.summary)
              /\ Deliver(r, o))
              => (hasIndex' /\ results' = Null /\ error' = Null /\ ~loading')]_vars

\* C9: a successful ask response appends one AI message: its text is the
\* response's answer, or the no-answer sentinel when the answer is empty or
\* missing, and its sources are the response's sources in the same order.
C9_AnswerAndSources ==
    [][\A i \in DOMAIN asks : \A o \in AskOutcomes(asks[i]) :
          (o.kind = "ok" /\ DeliverAsk(i, o))
              => /\ Len(messages') = Len(messages) + 1
                 /\ SubSeq(messages', 1, Len(messages)) = messages
                 /\ LET m == messages'[Len(messages')] IN
                      /\ m.from = "ai"
                      /\ m.text = IF o.answer \in {Null, ""} THEN NoAnswer ELSE o.answer
                      /\ m.sources = IF o.hasSources THEN o.sources ELSE <<>>]_vars

\* A no-answer message that still carries the citations.
C9_Witness ==
    \E k \in DOMAIN messages :
        /\ messages[k].from = "ai"
        /\ messages[k].text = NoAnswer
        /\ Len(messages[k].sources) = 2

\* C10: every summarize request in flight carries a query that is not blank,
\* index = true and mode = 'replace'.
C10_NoEmptyPaste ==
    \A r \in InFlight :
        r.op = "summarize"
            => (~Blank(r.arg) /\ r.index = TRUE /\ r.mode = "replace")

\* A summarize request for the text typed into the query field is in flight.
C10_Witness ==
    \E r \in InFlight :
        /\ r.op = "summarize"
        /\ r.arg \in Texts
        /\ query = r.arg

\* C11: when a mutating store action fails (its request is rejected or gets no
\* response) and no other store action was in flight during it, results,
\* hasIndex, lastFilename, query and url have the values they had when the
\* action was called, error is a non-empty message and loading is false.
C11_FailureKeepsState ==
    [][\A r \in InFlight : \A o \in Outcomes(r) \cup {NetErr} :
          (r.op # "status" /\ r.solo /\ o.kind # "ok" /\ Resume(r, o))
              => (Prior' = r.prior /\ Truthy(error') /\ ~loading')]_vars

\* C12: while the request of a mutating store action is in flight, loading is
\* true; and at most one such request is in flight at a time.
C12_LoadingCovers ==
    /\ BagCardinality(Mutations) > 0 => loading
    /\ BagCardinality(Mutations) <= 1

\* The messages of one sender among the first k.
Count(from, k) ==
    Cardinality({j \in 1..k : j \in DOMAIN messages /\ messages[j].from = from})

\* C13: a call of askQuestion with a question that is not blank appends one
\* user message with the question's text, clears the question field and sends
\* one request; the end of a request appends one AI message and sets loading
\* to false; no other step adds or removes a message; so every question has
\* one AI message after it or a request in flight; and, every request coming
\* to its end, the n-th question is eventually followed by the n-th AI message
\* and loading eventually returns to false.
C13_OneReply ==
    /\ [][(nAsks' # nAsks /\ ~Blank(question))
             => /\ messages' = Append(messages, Msg("user", question, <<>>, FALSE))
                /\ question' = ""
                /\ Len(asks') = Len(asks) + 1]_vars
    /\ [][Len(asks') < Len(asks)
             => /\ Len(asks') = Len(asks) - 1
                /\ Len(messages') = Len(messages) + 1
                /\ SubSeq(messages', 1, Len(messages)) = messages
                /\ messages'[Len(messages')].from = "ai"
                /\ messages'[Len(messages')].text # ""
                /\ ~qaLoading']_vars
    /\ [][(Len(asks') = Len(asks) /\ (nAsks' = nAsks \/ Blank(question)))
             => /\ Len(messages') = Len(messages)
                /\ \A k \in DOMAIN messages :
                     /\ messages'[k].from = messages[k].from
                     /\ messages'[k].text = messages[k].text]_vars
    /\ [](/\ Count("user", Len(messages)) = Count("ai", Len(messages)) + Len(asks)
          /\ \A k \in DOMAIN messages : Count("ai", k) <= Count("user", k))
    /\ \A n \in 1..MaxAsks :
          (Count("user", Len(messages)) >= n) ~> (Count("ai", Len(messages)) >= n)
    /\ qaLoading ~> (~qaLoading /\ asks = <<>>)

\* Two questions asked one after the other: the first request failed, the
\* second was answered.
C13_Witness ==
    /\ Len(messages) = 4
    /\ messages[1].from = "user"
    /\ messages[2] = AskError
    /\ messages[3].from = "user"
    /\ messages[4].from = "ai"
    /\ messages[4].text = "stores a value"
    /\ asks = <<>>
    /\ ~qaLoading

\* C14: when mutating store actions have run one at a time and none is in
\* flight, loading is false and error is non-null exactly if the last of them
\* to complete failed.
C14_ErrorIsLast ==
    (lastDone.outcome \in {"ok", "failed"} /\ BagCardinality(Mutations) = 0)
        => (~loading /\ (error # Null <=> lastDone.outcome = "failed"))

\* An action has failed and the next one has succeeded: no error is left.
C14_Witness ==
    /\ lastDone = [outcome |-> "ok", afterFailure |-> TRUE]
    /\ BagCardinality(Mutations) = 0
    /\ error = Null
====
